---- MODULE Spec2Model ----
(***************************************************************************)
(* Model of manage_obs_env: the command line front end that dispatches one *)
(* action per process run onto the Observing Environment.                  *)
(*                                                                         *)
(* src/src/manage_obs_env.rs holds the configuration accessors, the        *)
(* validation in get_action and the dispatcher run.  The Observing         *)
(* Environment itself (observing_environment.rs), the Repos registry       *)
(* (repos.rs) and the version-control backend live outside this file;      *)
(* their operations are modelled from the specification and are marked     *)
(* "spec-modelled" below.                                                  *)
(*                                                                         *)
(* One process run is one step (Run); Exit ends the process, after which   *)
(* only the filesystem (pathOk, disk) survives for the next run.           *)
(***************************************************************************)
EXTENDS Integers, Sequences, FiniteSets, TLC

\* ------------------------------------------------------------------ bounds
NumRepos == 2
NumVersions == 2

\* ------------------------------------------------- registry and value sets
\* spec-modelled: the closed Registry, in iteration order.
Repos == 1 .. NumRepos

\* spec-modelled: Repos::get_name, the canonical name of an identity.
get_name(r) == "repo" \o ToString(r)

RegistryNames == { get_name(r) : r \in Repos }

\* spec-modelled: the refs the backend knows for every repository.
Versions == { "v" \o ToString(i) : i \in 1 .. NumVersions }

\* spec-modelled: the ref a fresh clone has checked out.
DefaultVersion == "v1"

\* spec-modelled: a repository that is not on disk.
Absent == "absent"

\* Option<Repos>::None of the `repository` argument.
NoRepository == 0

Actions ==
  { "Setup", "PrintConfig", "Reset", "ShowCurrentVersions",
    "ShowOriginalVersions", "CheckoutBranch", "CheckoutVersion" }

LogLevels == { "Trace", "Debug", "Info", "Warn", "Error" }

DefaultEnvPath == "/net/obs-env/auto_base_packages"
DefaultBranchName == ""
DefaultBaseEnvBranchName == "main"
DefaultLogLevel == "Debug"

\* Values given on the command line for --branch-name and
\* --base-env-branch-name.
BranchNames == Versions \cup { DefaultBranchName }
BaseBranchNames == { DefaultBaseEnvBranchName, "develop" }

\* The parsed arguments (struct ManageObsEnv).
ManageObsEnv ==
  [ action : Actions,
    log_level : LogLevels,
    env_path : { DefaultEnvPath },
    repository : Repos \cup { NoRepository },
    branch_name : BranchNames,
    base_env_branch_name : BaseBranchNames ]

\* The arguments a match arm of run reads besides action, log_level and
\* env_path: get_repository_name, get_branch_name and get_version are
\* called in the two checkout arms only, get_base_env_source_repo in the
\* Reset and ShowOriginalVersions arms only.  An argument the arm of the
\* chosen action never reads cannot influence the run and is left at its
\* clap default; `repository` is also read by get_action, for
\* CheckoutBranch.
ReadsRepository(a) == a \in { "CheckoutBranch", "CheckoutVersion" }
ReadsBranchName(a) == a \in { "CheckoutBranch", "CheckoutVersion" }
ReadsBaseBranch(a) == a \in { "Reset", "ShowOriginalVersions" }

Configs ==
  { c \in ManageObsEnv :
      /\ (~ReadsBranchName(c.action) => c.branch_name = DefaultBranchName)
      /\ (~ReadsBaseBranch(c.action) =>
            c.base_env_branch_name = DefaultBaseEnvBranchName)
      /\ (~ReadsRepository(c.action) => c.repository = NoRepository) }

\* ----------------------------------------------- configuration accessors
Ok(v) == [ ok |-> TRUE, value |-> v ]
Err(e) == [ ok |-> FALSE, value |-> e ]

get_action_unvalidated(config) == Ok(config.action)

get_action_strict(config) ==
  IF config.action \in { "CheckoutBranch", "CheckoutVersion" }
     /\ config.repository = NoRepository
  THEN Err("ConfigurationError")
  ELSE Ok(config.action)

get_action(config) ==
  IF config.action = "CheckoutBranch"
  THEN IF config.repository = NoRepository
       THEN Err("ConfigurationError")
       ELSE Ok(config.action)
  ELSE Ok(config.action)

get_log_level(config) == config.log_level
get_env_path(config) == config.env_path
get_branch_name(config) == config.branch_name
get_version(config) == config.branch_name

get_repository_name(config) ==
  IF config.repository # NoRepository
  THEN get_name(config.repository)
  ELSE ""

get_base_env_source_repo(config) == config.base_env_branch_name

\* ------------------------------------------------------------------ logging
\* log::set_max_level(..) followed by the log macros: a record is emitted
\* when its level is at most the configured maximum.
LevelRank(l) ==
  CASE l = "Error" -> 1
    [] l = "Warn" -> 2
    [] l = "Info" -> 3
    [] l = "Debug" -> 4
    [] l = "Trace" -> 5

\* One log line: the format string, the {name} argument when the format
\* has one, the other argument, and the count argument.
Rec(level, msg, name, detail, n) ==
  [ level |-> level, msg |-> msg, name |-> name, detail |-> detail, n |-> n ]

Emitted(config, rec) ==
  LevelRank(rec.level) <= LevelRank(get_log_level(config))

Log(log, config, recs) ==
  log \o SelectSeq(recs, LAMBDA r : Emitted(config, r))

\* ------------------------------------------- traces of calls made by a run
Call(op, name, arg, ok) ==
  [ op |-> op, name |-> name, arg |-> arg, ok |-> ok ]

VcsCall(op, repo, arg, ok) ==
  [ op |-> op, repo |-> repo, arg |-> arg, ok |-> ok ]

\* One entry of a BatchResult: the identity, and the result.
Entry(repo, ok, detail) == [ repo |-> repo, ok |-> ok, detail |-> detail ]

\* ------------------------------------------------ the descriptor source
\* spec-modelled: what the base-environment descriptor holds when it is
\* fetched: the entries written in it (a partial mapping from identity to
\* version) and whether fetching and parsing it succeeds.
Descriptors ==
  UNION { [ readable : BOOLEAN, entries : [S -> Versions] ] :
            S \in SUBSET Repos }

NoDescriptor == [ readable |-> FALSE, entries |-> << >> ]

\* spec-modelled: Base-Version Resolver, resolve(reference_branch_name).
\* All or nothing: no partial mapping on failure.
resolve(descriptor) ==
  IF descriptor.readable
  THEN Ok(descriptor.entries)
  ELSE Err("ResolverError")

\* ------------------------------------------------ Observing Environment
\* Every operation returns its result `ret`, the filesystem after it, and
\* the calls it made on the version-control backend, in order.  `failing`
\* is the set of repositories whose backend call fails during this run for
\* a reason of the backend's own (unreachable remote, dirty tree, ...).

\* spec-modelled: ObservingEnvironment::with_destination, the constructor.
with_destination(destination) == [ destination |-> destination ]

\* spec-modelled: create_path.  `creatable` tells whether the filesystem
\* lets the directory be created.
create_path(pathOk, creatable) ==
  IF pathOk \/ creatable
  THEN [ ret |-> Ok(""), pathOk |-> TRUE ]
  ELSE [ ret |-> Err("IoError"), pathOk |-> FALSE ]

\* The accumulator of a fold over the Registry.
Acc(ret, disk, vcs) == [ ret |-> ret, disk |-> disk, vcs |-> vcs ]

\* spec-modelled: backend clone of one repository.
CloneOne(obs_env, acc, r, failing) ==
  LET ok == r \notin failing
      path == obs_env.destination \o "/" \o get_name(r)
  IN Acc(Append(acc.ret, Entry(r, ok, IF ok THEN path ELSE "VcsError")),
         IF ok /\ acc.disk[r] = Absent
         THEN [acc.disk EXCEPT ![r] = DefaultVersion]
         ELSE acc.disk,
         Append(acc.vcs, VcsCall("clone", r, path, ok)))

RECURSIVE CloneFrom(_, _, _, _)
CloneFrom(obs_env, acc, r, failing) ==
  IF r > NumRepos
  THEN acc
  ELSE CloneFrom(obs_env, CloneOne(obs_env, acc, r, failing), r + 1, failing)

RECURSIVE CloneUntilFailure(_, _, _, _)
CloneUntilFailure(obs_env, acc, r, failing) ==
  IF r > NumRepos \/ (r > 1 /\ ~acc.ret[r - 1].ok)
  THEN acc
  ELSE CloneUntilFailure(obs_env, CloneOne(obs_env, acc, r, failing),
                         r + 1, failing)

clone_repositories_short_circuit(obs_env, disk, failing) ==
  CloneUntilFailure(obs_env, Acc(<< >>, disk, << >>), 1, failing)

\* spec-modelled: clone_repositories, BatchResult<RepositoryInstance>.
clone_repositories(obs_env, disk, failing) ==
  CloneFrom(obs_env, Acc(<< >>, disk, << >>), 1, failing)

\* spec-modelled: backend current_version of one repository.
CurrentOne(acc, r, failing) ==
  LET ok == acc.disk[r] # Absent /\ r \notin failing
      detail == IF acc.disk[r] = Absent THEN "RepositoryNotFound"
                ELSE IF r \in failing THEN "VcsError"
                ELSE acc.disk[r]
  IN Acc(Append(acc.ret, Entry(r, ok, detail)),
         acc.disk,
         Append(acc.vcs, VcsCall("current_version", r, "", ok)))

RECURSIVE CurrentFrom(_, _, _)
CurrentFrom(acc, r, failing) ==
  IF r > NumRepos
  THEN acc
  ELSE CurrentFrom(CurrentOne(acc, r, failing), r + 1, failing)

\* spec-modelled: get_current_env_versions, BatchResult<Version>.
get_current_env_versions(disk, failing) ==
  CurrentFrom(Acc(<< >>, disk, << >>), 1, failing)

\* spec-modelled: get_base_env_versions, atomic.
get_base_env_versions(descriptor) == resolve(descriptor)

\* spec-modelled: backend checkout_to_version / checkout_branch of one
\* repository: fails when the repository is not on disk, when the backend
\* does not know the ref, or for a reason of the backend's own.
CheckoutSucceeds(disk, r, ref, failing) ==
  /\ disk[r] # Absent
  /\ ref \in Versions
  /\ r \notin failing

CheckoutOne(acc, r, ref, failing) ==
  LET ok == CheckoutSucceeds(acc.disk, r, ref, failing)
  IN Acc(IF ok THEN acc.ret
         ELSE Append(acc.ret,
                     Entry(r, FALSE,
                           IF acc.disk[r] = Absent
                           THEN "RepositoryNotFound" ELSE "VcsError")),
         IF ok THEN [acc.disk EXCEPT ![r] = ref] ELSE acc.disk,
         Append(acc.vcs, VcsCall("checkout_to_version", r, ref, ok)))

RECURSIVE ResetFrom(_, _, _, _)
ResetFrom(acc, r, base, failing) ==
  IF r > NumRepos
  THEN acc
  ELSE ResetFrom(IF r \in DOMAIN base
                 THEN CheckoutOne(acc, r, base[r], failing)
                 ELSE acc,
                 r + 1, base, failing)

\* The Result<(), Vec<error>> of reset_base_environment.
ResetResult(acc) ==
  [ acc EXCEPT !.ret = IF acc.ret = << >> THEN Ok(<< >>) ELSE Err(acc.ret) ]

reset_base_environment_no_atomicity(descriptor, disk, failing) ==
  ResetResult(ResetFrom(Acc(<< >>, disk, << >>), 1, descriptor.entries,
                        failing))

reset_base_environment_missing_ok(descriptor, disk, failing) ==
  LET base == resolve(descriptor)
      acc == ResetFrom(Acc(<< >>, disk, << >>), 1, base.value, failing)
  IN IF ~base.ok
     THEN Acc(Err(<< Entry(NoRepository, FALSE, base.value) >>), disk, << >>)
     ELSE ResetResult([ acc EXCEPT !.ret =
            SelectSeq(acc.ret, LAMBDA e : e.detail # "RepositoryNotFound") ])

\* spec-modelled: reset_base_environment.  The resolver runs first; when it
\* fails the reset fails with that one error and attempts no checkout.  When
\* it succeeds every repository with a base version is checked out and the
\* failures are returned, one per repository that failed.
reset_base_environment(descriptor, disk, failing) ==
  LET base == resolve(descriptor)
  IN IF ~base.ok
     THEN Acc(Err(<< Entry(NoRepository, FALSE, base.value) >>), disk, << >>)
     ELSE ResetResult(ResetFrom(Acc(<< >>, disk, << >>), 1, base.value,
                                failing))

\* spec-modelled: lookup of a repository name in the Registry.
Lookup(repository_name) ==
  IF repository_name \in RegistryNames
  THEN Ok(CHOOSE r \in Repos : get_name(r) = repository_name)
  ELSE Err("UnknownRepository")

\* spec-modelled: checkout_branch / reset_index_to_version, one repository.
CheckoutNamed(op, disk, repository_name, ref, failing) ==
  LET found == Lookup(repository_name)
      r == found.value
      ok == CheckoutSucceeds(disk, r, ref, failing)
  IN IF ~found.ok
     THEN Acc(Err(found.value), disk, << >>)
     ELSE Acc(IF ok THEN Ok("")
              ELSE Err(IF disk[r] = Absent
                       THEN "RepositoryNotFound" ELSE "VcsError"),
              IF ok THEN [disk EXCEPT ![r] = ref] ELSE disk,
              << VcsCall(op, r, ref, ok) >>)

checkout_branch(disk, repository_name, branch_name, failing) ==
  CheckoutNamed("checkout_branch", disk, repository_name, branch_name,
                failing)

reset_index_to_version(disk, repository_name, version, failing) ==
  CheckoutNamed("checkout_to_version", disk, repository_name, version,
                failing)

\* spec-modelled: summarize, pure.
summarize(obs_env) == obs_env.destination

\* ------------------------------------------------------------------- run
\* The outcome of one run: the Observing Environment calls made (each with
\* whether it returned Ok), the backend calls they made, the log lines
\* emitted, the last batch value an operation returned, the Result of run
\* ("Ok" or the error) and the filesystem afterwards.
Outcome(calls, vcs, log, batch, result, pathOk, disk) ==
  [ calls |-> calls, vcs |-> vcs, log |-> log, batch |-> batch,
    result |-> result, pathOk |-> pathOk, disk |-> disk ]

\* The inputs of one run that come from outside the program.
RunInput(creatable, failing, descriptor) ==
  [ creatable |-> creatable, failing |-> failing, descriptor |-> descriptor ]

\* The log line of one clone result.
CloneLine(e) ==
  IF e.ok
  THEN Rec("Info", "{:?}", "", e.detail, 0)
  ELSE Rec("Error", "Failed to clone: {error:?}", "", e.detail, 0)

Action_Setup_ignoring_create_path(config, obs_env, o, inp) ==
  LET l1 == Log(o.log, config,
                << Rec("Info", "Executing Setup...", "", "", 0),
                   Rec("Debug", "Creating path...", "", "", 0) >>)
      cp == create_path(o.pathOk, inp.creatable)
      c1 == Append(o.calls, Call("create_path", "", "", cp.ret.ok))
      cloned_repos == clone_repositories(obs_env, o.disk, inp.failing)
      l2 == Log(l1, config,
                << Rec("Debug", "Cloning repositories...", "", "", 0),
                   Rec("Info", "The following repositories where cloned: ",
                       "", "", 0) >>
                \o [ i \in 1 .. Len(cloned_repos.ret) |->
                       CloneLine(cloned_repos.ret[i]) ])
  IN Outcome(Append(c1, Call("clone_repositories", "", "", TRUE)),
             cloned_repos.vcs, l2, cloned_repos.ret, "Ok", cp.pathOk,
             cloned_repos.disk)

Action_Setup(config, obs_env, o, inp) ==
  LET l1 == Log(o.log, config,
                << Rec("Info", "Executing Setup...", "", "", 0),
                   Rec("Debug", "Creating path...", "", "", 0) >>)
      cp == create_path(o.pathOk, inp.creatable)
      c1 == Append(o.calls, Call("create_path", "", "", cp.ret.ok))
      cloned_repos == clone_repositories(obs_env, o.disk, inp.failing)
      l2 == Log(l1, config,
                << Rec("Debug", "Cloning repositories...", "", "", 0),
                   Rec("Info", "The following repositories where cloned: ",
                       "", "", 0) >>
                \o [ i \in 1 .. Len(cloned_repos.ret) |->
                       CloneLine(cloned_repos.ret[i]) ])
  IN IF ~cp.ret.ok
     THEN Outcome(c1, o.vcs, l1, o.batch, cp.ret.value, cp.pathOk, o.disk)
     ELSE Outcome(Append(c1, Call("clone_repositories", "", "", TRUE)),
                  cloned_repos.vcs, l2, cloned_repos.ret, "Ok", cp.pathOk,
                  cloned_repos.disk)

Action_PrintConfig(config, obs_env, o, inp) ==
  [ o EXCEPT
      !.calls = Append(o.calls, Call("summarize", "", "", TRUE)),
      !.log = Log(o.log, config,
                  << Rec("Info", "{}", "", summarize(obs_env), 0) >>) ]

\* The identity an error of the reset's error list names, if any.
ErrorName(e) == IF e.repo = NoRepository THEN "" ELSE get_name(e.repo)

ResetLines_always_success(ret) ==
  << Rec("Info", "All repositories set to they base versions.", "", "", 0) >>

ResetLines(ret) ==
  IF ~ret.ok
  THEN << Rec("Error", "Error resetting {} repositories.", "", "",
              Len(ret.value)) >>
       \o [ i \in 1 .. Len(ret.value) |->
              Rec("Error", "{:?}", ErrorName(ret.value[i]),
                  ret.value[i].detail, 0) ]
  ELSE << Rec("Info", "All repositories set to they base versions.",
              "", "", 0) >>

Action_Reset(config, obs_env, o, inp) ==
  LET l1 == Log(o.log, config,
                << Rec("Info", "Resetting Observing environment...",
                       "", "", 0) >>)
      reset == reset_base_environment(inp.descriptor, o.disk, inp.failing)
  IN Outcome(Append(o.calls,
                    Call("reset_base_environment", "",
                         get_base_env_source_repo(config), reset.ret.ok)),
             reset.vcs,
             Log(l1, config, ResetLines(reset.ret)),
             IF reset.ret.ok THEN << >> ELSE reset.ret.value,
             "Ok", o.pathOk, reset.disk)

VersionLine(e) ==
  IF e.ok
  THEN Rec("Info", "{name}: {version}", get_name(e.repo), e.detail, 0)
  ELSE Rec("Error", "{name}: {error:?}", get_name(e.repo), e.detail, 0)

Action_ShowCurrentVersions(config, obs_env, o, inp) ==
  LET current_versions == get_current_env_versions(o.disk, inp.failing)
  IN Outcome(Append(o.calls, Call("get_current_env_versions", "", "", TRUE)),
             current_versions.vcs,
             Log(o.log, config,
                 << Rec("Info", "Current environment versions:",
                        "", "", 0) >>
                 \o [ i \in 1 .. Len(current_versions.ret) |->
                        VersionLine(current_versions.ret[i]) ]),
             current_versions.ret, "Ok", o.pathOk, o.disk)

\* The (name, version) pairs of a base-version mapping, in Registry order.
RECURSIVE BaseEntries(_, _)
BaseEntries(base, r) ==
  IF r > NumRepos
  THEN << >>
  ELSE (IF r \in DOMAIN base THEN << Entry(r, TRUE, base[r]) >> ELSE << >>)
       \o BaseEntries(base, r + 1)

Action_ShowOriginalVersions(config, obs_env, o, inp) ==
  LET base_env_versions == get_base_env_versions(inp.descriptor)
      entries == BaseEntries(base_env_versions.value, 1)
  IN [ o EXCEPT
         !.calls = Append(o.calls,
                          Call("get_base_env_versions", "",
                               get_base_env_source_repo(config),
                               base_env_versions.ok)),
         !.batch = IF base_env_versions.ok THEN entries ELSE << >>,
         !.log =
           IF base_env_versions.ok
           THEN Log(o.log, config,
                    << Rec("Info", "Base Environment versions:",
                           "", "", 0) >>
                    \o [ i \in 1 .. Len(entries) |->
                           VersionLine(entries[i]) ])
           ELSE Log(o.log, config,
                    << Rec("Error", "{error:?}", "",
                           base_env_versions.value, 0) >>) ]

\* A single-repository call followed by `?`.
Propagate(o, call, done) ==
  Outcome(Append(o.calls, call), done.vcs, o.log, o.batch,
          IF done.ret.ok THEN "Ok" ELSE done.ret.value,
          o.pathOk, done.disk)

Action_CheckoutBranch(config, obs_env, o, inp) ==
  LET done == checkout_branch(o.disk, get_repository_name(config),
                              get_branch_name(config), inp.failing)
  IN Propagate(o,
               Call("checkout_branch", get_repository_name(config),
                    get_branch_name(config), done.ret.ok),
               done)

Action_CheckoutVersion_error_dropped(config, obs_env, o, inp) ==
  LET done == reset_index_to_version(o.disk, get_repository_name(config),
                                     get_version(config), inp.failing)
  IN [ Propagate(o,
                 Call("reset_index_to_version", get_repository_name(config),
                      get_version(config), done.ret.ok),
                 done) EXCEPT !.result = "Ok" ]

Action_CheckoutVersion(config, obs_env, o, inp) ==
  LET done == reset_index_to_version(o.disk, get_repository_name(config),
                                     get_version(config), inp.failing)
  IN Propagate(o,
               Call("reset_index_to_version", get_repository_name(config),
                    get_version(config), done.ret.ok),
               done)

\* run: the log line, the constructor, the validation, the dispatch.
run(config, pathOk0, disk0, inp) ==
  LET obs_env == with_destination(get_env_path(config))
      o == Outcome(<< Call("with_destination", "", get_env_path(config),
                           TRUE) >>,
                   << >>,
                   Log(<< >>, config,
                       << Rec("Info", "Running manage obs env...",
                              "", "", 0) >>),
                   << >>, "Ok", pathOk0, disk0)
      action == get_action(config)
  IN IF ~action.ok
     THEN [ o EXCEPT !.result = action.value ]
     ELSE CASE action.value = "Setup" ->
                 Action_Setup(config, obs_env, o, inp)
            [] action.value = "PrintConfig" ->
                 Action_PrintConfig(config, obs_env, o, inp)
            [] action.value = "Reset" ->
                 Action_Reset(config, obs_env, o, inp)
            [] action.value = "ShowCurrentVersions" ->
                 Action_ShowCurrentVersions(config, obs_env, o, inp)
            [] action.value = "ShowOriginalVersions" ->
                 Action_ShowOriginalVersions(config, obs_env, o, inp)
            [] action.value = "CheckoutBranch" ->
                 Action_CheckoutBranch(config, obs_env, o, inp)
            [] action.value = "CheckoutVersion" ->
                 Action_CheckoutVersion(config, obs_env, o, inp)

\* ------------------------------------------------------------ state machine
VARIABLES
  pc,          \* "idle": no process; "done": run has returned
  cfg,         \* the arguments of the run
  descriptor,  \* what the descriptor source held during the run
  pathOk,      \* the destination directory exists
  disk,        \* per repository: the checked-out version, or Absent
  calls,       \* Observing Environment calls of the run, in order
  vcs,         \* backend calls of the run, in order
  log,         \* log lines emitted by the run
  batch,       \* the batch value the run's operation returned
  result       \* what run returned: "Ok" or the error

vars == << pc, cfg, descriptor, pathOk, disk, calls, vcs, log, batch, result >>

DefaultConfig ==
  [ action |-> "PrintConfig", log_level |-> DefaultLogLevel,
    env_path |-> DefaultEnvPath, repository |-> NoRepository,
    branch_name |-> DefaultBranchName,
    base_env_branch_name |-> DefaultBaseEnvBranchName ]

\* The outside inputs the action of `config` consults in the current
\* filesystem state; what it does not consult is left fixed.
Present == { r \in Repos : disk[r] # Absent }

Inputs(config) ==
  { RunInput(c, f, d) :
      c \in (IF config.action = "Setup" /\ ~pathOk
             THEN BOOLEAN ELSE { TRUE }),
      f \in (CASE config.action = "Setup" -> SUBSET Repos
               [] config.action \in { "Reset", "ShowCurrentVersions" } ->
                    SUBSET Present
               [] config.action \in { "CheckoutBranch", "CheckoutVersion" } ->
                    SUBSET (Present \cap { config.repository })
               [] OTHER -> { {} }),
      d \in (IF config.action \in { "Reset", "ShowOriginalVersions" }
             THEN Descriptors ELSE { NoDescriptor }) }

Init ==
  /\ pc = "idle"
  /\ cfg = DefaultConfig
  /\ descriptor = NoDescriptor
  /\ pathOk = FALSE
  /\ disk = [ r \in Repos |-> Absent ]
  /\ calls = << >>
  /\ vcs = << >>
  /\ log = << >>
  /\ batch = << >>
  /\ result = "Ok"

\* One process run: main parses the arguments and calls run.
Run ==
  /\ pc = "idle"
  /\ \E config \in Configs :
       \E inp \in Inputs(config) :
         LET o == run(config, pathOk, disk, inp)
         IN /\ pc' = "done"
            /\ cfg' = config
            /\ descriptor' = inp.descriptor
            /\ pathOk' = o.pathOk
            /\ disk' = o.disk
            /\ calls' = o.calls
            /\ vcs' = o.vcs
            /\ log' = o.log
            /\ batch' = o.batch
            /\ result' = o.result

\* The process exits; only the filesystem is kept.
Exit ==
  /\ pc = "done"
  /\ pc' = "idle"
  /\ cfg' = DefaultConfig
  /\ descriptor' = NoDescriptor
  /\ calls' = << >>
  /\ vcs' = << >>
  /\ log' = << >>
  /\ batch' = << >>
  /\ result' = "Ok"
  /\ UNCHANGED << pathOk, disk >>

Next == Run \/ Exit

Spec == Init /\ [][Next]_vars

\* ------------------------------------------------------------------ claims
Done == pc = "done"

IsCheckout(call) == call.op \in { "checkout_branch", "reset_index_to_version" }

\* The repositories whose backend call failed during the run.
FailedRepos == { vcs[i].repo : i \in { j \in DOMAIN vcs : ~vcs[j].ok } }

BatchRepos == { batch[i].repo : i \in DOMAIN batch }

RejectedCheckoutBranch ==
  /\ Done
  /\ cfg.action = "CheckoutBranch"
  /\ cfg.repository = NoRepository

\* C1 (as stated): CheckoutBranch without a repository is rejected by
\* get_action, run returns that error, and at that point no Observing
\* Environment constructor or operation has been invoked.
C1_Original ==
  RejectedCheckoutBranch =>
    /\ result = "ConfigurationError"
    /\ calls = << >>

\* C1 (amended): CheckoutBranch without a repository is rejected by
\* get_action and run returns that error; the constructor with_destination
\* has already run by then, but no Observing Environment operation has been
\* invoked and no backend call was made.
C1_RejectedBeforeAnyOperation ==
  RejectedCheckoutBranch =>
    /\ result = "ConfigurationError"
    /\ calls = << Call("with_destination", "", cfg.env_path, TRUE) >>
    /\ vcs = << >>

C1_Witness ==
  /\ RejectedCheckoutBranch
  /\ result = "ConfigurationError"
  /\ cfg.branch_name \in Versions

\* The action passed validation and its match arm ran.
Dispatched == Done /\ Len(calls) > 1

\* C2: for every dispatched action, run returns Ok if and only if every
\* Observing Environment call made for it returned Ok.
C2_OkIffCallsOk ==
  Dispatched => (result = "Ok" <=> \A i \in DOMAIN calls : calls[i].ok)

IsBatchOperation ==
  /\ Done
  /\ calls[Len(calls)].op \in
       { "clone_repositories", "get_current_env_versions" }

ResetWithResolverFailure ==
  /\ cfg.action = "Reset"
  /\ ~resolve(descriptor).ok

\* C4: a Reset whose resolver step fails makes no checkout call on the
\* backend and leaves every repository's checked-out version unchanged.
C4_ResolverFailureIsAtomic ==
  [][ (pc = "idle" /\ pc' = "done" /\ ResetWithResolverFailure')
        => (vcs' = << >> /\ disk' = disk) ]_vars

C4_Witness ==
  /\ Done
  /\ ResetWithResolverFailure
  /\ DOMAIN descriptor.entries = Repos
  /\ \A r \in Repos : disk[r] # Absent
  /\ vcs = << >>

ResetWithResolverOk ==
  /\ Done
  /\ cfg.action = "Reset"
  /\ resolve(descriptor).ok

SuccessLogged ==
  \E i \in DOMAIN log :
    log[i].msg = "All repositories set to they base versions."

CountLogged(n) ==
  \E i \in DOMAIN log :
    /\ log[i].msg = "Error resetting {} repositories."
    /\ log[i].n = n

\* The error list of a reset holds exactly the repositories whose checkout
\* failed, once each, and is empty iff every checkout succeeded.
ErrorListIsFailures ==
  /\ BatchRepos \subseteq Repos
  /\ BatchRepos = FailedRepos
  /\ Len(batch) = Cardinality(FailedRepos)
  /\ (batch = << >> <=> \A i \in DOMAIN vcs : vcs[i].ok)

\* C5 (as stated): with the resolver succeeding, the error list is exactly
\* the failed repositories, and Reset logs the success message exactly when
\* no checkout failed, otherwise a failure count equal to the number failed.
C5_Original ==
  ResetWithResolverOk =>
    /\ ErrorListIsFailures
    /\ (SuccessLogged <=> FailedRepos = {})
    /\ (FailedRepos # {} => CountLogged(Cardinality(FailedRepos)))

\* C5 (amended): as stated, except that the success message is an info
\* line: it is logged exactly when no checkout failed and the configured
\* log level lets info lines through (Info, Debug or Trace).
C5_ErrorListAndLog ==
  ResetWithResolverOk =>
    /\ ErrorListIsFailures
    /\ (SuccessLogged <=>
          (FailedRepos = {} /\ cfg.log_level \in { "Info", "Debug", "Trace" }))
    /\ (FailedRepos # {} => CountLogged(Cardinality(FailedRepos)))

C5_Witness ==
  /\ ResetWithResolverOk
  /\ Cardinality(FailedRepos) = 1
  /\ \E i \in DOMAIN vcs : vcs[i].ok
  /\ CountLogged(1)

\* C6: when the name passed to checkout_branch or reset_index_to_version is
\* not the name of a Registry identity, run returns UnknownRepository, no
\* backend call is made and the filesystem is unchanged.
C6_UnknownRepositoryTouchesNothing ==
  [][ (/\ pc = "idle"
       /\ pc' = "done"
       /\ \E i \in DOMAIN calls' :
            IsCheckout(calls'[i]) /\ calls'[i].name \notin RegistryNames)
        => (/\ result' = "UnknownRepository"
            /\ vcs' = << >>
            /\ disk' = disk
            /\ pathOk' = pathOk) ]_vars

C6_Witness ==
  /\ Done
  /\ \E i \in DOMAIN calls :
       IsCheckout(calls[i]) /\ calls[i].name \notin RegistryNames
  /\ result = "UnknownRepository"
  /\ \E r \in Repos : disk[r] # Absent

ResetCoveringRegistry ==
  /\ ResetWithResolverOk
  /\ DOMAIN get_base_env_versions(descriptor).value = Repos

HasCall(op) == \E i \in DOMAIN calls : calls[i].op = op

\* C8: Setup calls create_path before clone_repositories; when create_path
\* fails run returns the IoError and nothing is cloned; once create_path
\* succeeded clone failures do not make run fail.
C8_SetupCreatePathFatal ==
  (Done /\ cfg.action = "Setup") =>
    /\ Len(calls) >= 2
    /\ calls[1].op = "with_destination"
    /\ calls[2].op = "create_path"
    /\ (~calls[2].ok =>
          /\ result = "IoError"
          /\ ~HasCall("clone_repositories")
          /\ vcs = << >>)
    /\ (calls[2].ok =>
          /\ Len(calls) = 3
          /\ calls[3].op = "clone_repositories"
          /\ Len(vcs) = NumRepos
          /\ result = "Ok")

C8_Witness ==
  /\ Done
  /\ cfg.action = "Setup"
  /\ ~calls[2].ok
  /\ result = "IoError"

\* The error lines that name repository r together with an error detail.
ReportsOf(r) ==
  { j \in DOMAIN log :
      /\ log[j].level = "Error"
      /\ log[j].name = get_name(r)
      /\ log[j].detail # "" }

ResolverReports ==
  { j \in DOMAIN log : log[j].detail = "ResolverError" }

\* C9: every per-repository failure of a batch action (Setup, Reset,
\* ShowCurrentVersions) is reported by one line carrying the identity and
\* the error detail; a resolver failure is reported exactly once and a
\* resolver or configuration failure ends the action with no repository
\* operation attempted.
C9_FailuresReportedWithIdentity ==
  Done =>
    /\ (cfg.action \in { "Setup", "Reset", "ShowCurrentVersions" } =>
          \A r \in FailedRepos : Cardinality(ReportsOf(r)) = 1)
    /\ ((cfg.action \in { "Reset", "ShowOriginalVersions" }
         /\ ~resolve(descriptor).ok) =>
          /\ Cardinality(ResolverReports) = 1
          /\ vcs = << >>)
    /\ (result = "ConfigurationError" => vcs = << >>)

CheckoutVersionWithoutRepository ==
  /\ Done
  /\ cfg.action = "CheckoutVersion"
  /\ cfg.repository = NoRepository

\* C10: the repository name that reaches the Observing Environment is a
\* Registry name or the empty string; the empty string reaches it only
\* through CheckoutVersion without a repository, which is not rejected:
\* reset_index_to_version is called with "" and the branch-name argument
\* as the version.
C10_EmptyNameOnlyViaCheckoutVersion ==
  /\ Done =>
       \A i \in DOMAIN calls :
         /\ calls[i].name \in RegistryNames \cup { "" }
         /\ (IsCheckout(calls[i]) /\ calls[i].name = "") =>
              (cfg.action = "CheckoutVersion" /\ cfg.repository = NoRepository)
  /\ CheckoutVersionWithoutRepository =>
       /\ calls = << Call("with_destination", "", cfg.env_path, TRUE),
                     Call("reset_index_to_version", "", cfg.branch_name,
                          FALSE) >>
       /\ get_version(cfg) = get_branch_name(cfg)
       /\ result # "ConfigurationError"

C10_Witness ==
  /\ CheckoutVersionWithoutRepository
  /\ cfg.branch_name \in Versions
  /\ calls[Len(calls)].op = "reset_index_to_version"
  /\ calls[Len(calls)].arg = cfg.branch_name

====
